---------------------------- MODULE Spec2Model ----------------------------
(***************************************************************************)
(* Model of drv/device_hints.c: the type devhint_t and the statically      *)
(* initialised table `hints`.                                              *)
(*                                                                         *)
(* The translation unit defines no function.  What it contains is          *)
(*   - the struct type devhint_t (a char pointer, two arrays of 32         *)
(*     uint64_t, one uint32_t), and                                        *)
(*   - the object `hints`, an array of devhint_t with external linkage,    *)
(*     built from a brace-enclosed list of designated initialisers.        *)
(* The model therefore has two parts: the C initialisation semantics that  *)
(* turn the initialiser list into the object (ArrayInit, StructInit,       *)
(* TableInit), and the only accesses the object offers to the rest of the  *)
(* kernel, member reads hints[i].path / .iomem / .ioport / .irq.           *)
(*                                                                         *)
(* C indices are kept: hints and the arrays are functions over 0..n-1.     *)
(* The initialiser lists themselves are TLA+ sequences (1-based).          *)
(* uint64_t / uint32_t widths are not modelled: the file does no           *)
(* arithmetic and every literal is below 2^31.                             *)
(***************************************************************************)
EXTENDS Integers, Sequences, FiniteSets, TLC

VARIABLES
    dts,      \* the brace-enclosed initialiser list the table is built from
    loaded,   \* TRUE once static initialisation has produced `hints`
    hints,    \* the object `hints`: 0..n-1 -> devhint_t
    loc,      \* per reader: the member last read, <<index, member>>
    val       \* per reader: the value that read returned

vars == <<dts, loaded, hints, loc, val>>

---------------------------------------------------------------------------
(* Bounds of the model *)

\* number of concurrent readers of the table
NReaders == 3

\* longest initialiser list tried when the construction itself is explored
MaxRecs == 3

Readers == 1..NReaders

---------------------------------------------------------------------------
(* devhint_t *)

\* uint64_t iomem[32]
IomemSlots == 32

\* uint64_t ioport[32]
IoportSlots == 32

\* a char* value: the null pointer, or a pointer to a string literal
NULL == [null |-> TRUE, s |-> ""]

Str(s) == [null |-> FALSE, s |-> s]

---------------------------------------------------------------------------
(* C initialisation semantics *)

\* no padding: the array ends with the last listed value
ArrayInitUnpadded(list, n) == [k \in 0..(Len(list) - 1) |-> list[k + 1]]

\* An array of n elements initialised from a brace list shorter than n:
\* the listed values in order, every remaining element zero.
ArrayInit(list, n) == [k \in 0..(n - 1) |-> IF k < Len(list) THEN list[k + 1] ELSE 0]

\* The list a designator gives for an array member; no designator, no list.
ListOf(d, m) == IF m \in DOMAIN d THEN d[m] ELSE << >>

\* One devhint_t from a list of designated initialisers, in any order;
\* a member that is not designated is zero (a null pointer for path).
StructInit(d) ==
    [path   |-> IF "path" \in DOMAIN d THEN Str(d.path) ELSE NULL,
     iomem  |-> ArrayInit(ListOf(d, "iomem"), IomemSlots),
     ioport |-> ArrayInit(ListOf(d, "ioport"), IoportSlots),
     irq    |-> IF "irq" \in DOMAIN d THEN d.irq ELSE 0]

\* first occurrence of each path only
RECURSIVE Dedup(_)
Dedup(list) ==
    IF list = << >> THEN << >>
    ELSE LET init == SubSeq(list, 1, Len(list) - 1)
             last == list[Len(list)]
             kept == Dedup(init)
         IN  IF \E j \in 1..Len(init) : StructInit(init[j]).path = StructInit(last).path
             THEN kept ELSE Append(kept, last)

TableInitDedup(list) == [i \in 0..(Len(Dedup(list)) - 1) |-> StructInit(Dedup(list)[i + 1])]

\* devhint_t hints[] = { ... }: the array has one element per initialiser,
\* in the order written.  Nothing compares one element with another.
TableInit(list) == [i \in 0..(Len(list) - 1) |-> StructInit(list[i + 1])]

---------------------------------------------------------------------------
(* The initialisers of the file *)

\* the interrupt line of the other UART
Hint0IrqSwapped ==
    [iomem |-> <<1016, 1023, 760, 767>>,
     irq   |-> 3,
     path  |-> "/rootdev/pci@0/isab@0/isa@0/uart@0"]

\* the first range written end before start
Hint0Reversed ==
    [iomem |-> <<1023, 1016, 760, 767>>,
     irq   |-> 4,
     path  |-> "/rootdev/pci@0/isab@0/isa@0/uart@0"]

Hint0Init ==
    [iomem |-> <<1016, 1023, 760, 767>>,
     irq   |-> 4,
     path  |-> "/rootdev/pci@0/isab@0/isa@0/uart@0"]

\* the two range lists under each other's designator
Hint1MembersSwapped ==
    [ioport |-> <<760, 767>>,
     iomem  |-> <<96, 96, 100, 100>>,
     irq    |-> 3,
     path   |-> "/rootdev/pci@0/isab@0/isa@0/uart@1"]

\* a range that lost its end
Hint1OddIomem ==
    [ioport |-> <<96, 96, 100, 100>>,
     iomem  |-> <<760>>,
     irq    |-> 3,
     path   |-> "/rootdev/pci@0/isab@0/isa@0/uart@1"]

\* both UARTs on interrupt line 4
Hint1IrqShared ==
    [ioport |-> <<96, 96, 100, 100>>,
     iomem  |-> <<760, 767>>,
     irq    |-> 4,
     path   |-> "/rootdev/pci@0/isab@0/isa@0/uart@1"]

Hint1Init ==
    [ioport |-> <<96, 96, 100, 100>>,
     iomem  |-> <<760, 767>>,
     irq    |-> 3,
     path   |-> "/rootdev/pci@0/isab@0/isa@0/uart@1"]

\* the two nodes emitted in the opposite order
HintsLiteralSwapped == <<Hint1Init, Hint0Init>>

\* the second node emitted with the unit address of the first
HintsLiteralDupPath == <<Hint0Init, [Hint1Init EXCEPT !.path = Hint0Init.path]>>

HintsLiteral == <<Hint0Init, Hint1Init>>

---------------------------------------------------------------------------
(* The program: `hints` after static initialisation, and its readers *)

NoLoc == <<0, "none">>

Idle == [r \in Readers |-> NoLoc]

Init ==
    /\ dts = HintsLiteral
    /\ loaded = TRUE
    /\ hints = TableInit(dts)
    /\ loc = Idle
    /\ val = [r \in Readers |-> 0]

\* hints[i].m read by reader r: the value is copied out, the object is
\* not written
Load(r, i, m) ==
    /\ loaded
    /\ loc' = [loc EXCEPT ![r] = <<i, m>>]
    /\ val' = [val EXCEPT ![r] = hints[i][m]]
    /\ UNCHANGED <<dts, loaded, hints>>

\* a read that claims the interrupt line by clearing it in the table
ReadIrqClearing ==
    \E r \in Readers : \E i \in DOMAIN hints :
        /\ loaded
        /\ loc' = [loc EXCEPT ![r] = <<i, "irq">>]
        /\ val' = [val EXCEPT ![r] = hints[i].irq]
        /\ hints' = [hints EXCEPT ![i].irq = 0]
        /\ UNCHANGED <<dts, loaded>>

ReadPath == \E r \in Readers : \E i \in DOMAIN hints : Load(r, i, "path")

ReadIomem == \E r \in Readers : \E i \in DOMAIN hints : Load(r, i, "iomem")

ReadIoport == \E r \in Readers : \E i \in DOMAIN hints : Load(r, i, "ioport")

ReadIrq == \E r \in Readers : \E i \in DOMAIN hints : Load(r, i, "irq")

Next ==
    \/ ReadPath
    \/ ReadIomem
    \/ ReadIoport
    \/ ReadIrq

Spec == Init /\ [][Next]_vars

---------------------------------------------------------------------------
(* The construction on its own: static initialisation applied to any       *)
(* initialiser list the generator could have written.                      *)

\* a second node that repeats the path of Hint0Init
DupInit ==
    [ioport |-> <<744, 751>>,
     irq    |-> 5,
     path   |-> "/rootdev/pci@0/isab@0/isa@0/uart@0"]

\* a node with nothing but an interrupt line
BareInit == [irq |-> 7]

Candidates == {Hint0Init, Hint1Init, DupInit, BareInit}

Inputs == UNION {[1..n -> Candidates] : n \in 1..MaxRecs}

InitBuild ==
    /\ dts \in Inputs
    /\ loaded = FALSE
    /\ hints = << >>
    /\ loc = Idle
    /\ val = [r \in Readers |-> 0]

\* static initialisation of `hints` from the initialiser list
Construct ==
    /\ ~loaded
    /\ loaded' = TRUE
    /\ hints' = TableInit(dts)
    /\ UNCHANGED <<dts, loc, val>>

NextBuild == Construct

SpecBuild == InitBuild /\ [][NextBuild]_vars

---------------------------------------------------------------------------
(* Vocabulary of the properties *)

\* reader r last read hints[i].m
HasRead(r, i, m) == loc[r] = <<i, m>>

NPairs(a) == Cardinality(DOMAIN a) \div 2

\* the p-th (start, end) pair of a range array, p counted from 0
Pair(a, p) == <<a[2 * p], a[(2 * p) + 1]>>

\* index of the first (0,0) pair, NPairs(a) if there is none
FirstZeroPair(a) ==
    CHOOSE p \in 0..NPairs(a) :
        /\ p < NPairs(a) => Pair(a, p) = <<0, 0>>
        /\ \A q \in 0..(p - 1) : Pair(a, q) # <<0, 0>>

\* the range sequence of an array: its pairs up to the first (0,0) pair
Ranges(a) == [p \in 1..FirstZeroPair(a) |-> Pair(a, p - 1)]

\* number of scalar values before the trailing run of zeros
PopulatedLen(a) ==
    IF \A k \in DOMAIN a : a[k] = 0 THEN 0
    ELSE 1 + (CHOOSE k \in DOMAIN a :
                 /\ a[k] # 0
                 /\ \A j \in DOMAIN a : j > k => a[j] = 0)

\* number of scalar values the initialiser of hints[i] lists for member m
Listed(i, m) == Len(ListOf(dts[i + 1], m))

RangeMembers == {"iomem", "ioport"}

---------------------------------------------------------------------------
(* Properties *)

\* C1: the table `hints` has exactly two records, index 0 the one with
\* path /rootdev/pci@0/isab@0/isa@0/uart@0 and index 1 the one with path
\* /rootdev/pci@0/isab@0/isa@0/uart@1; there is no third record.
C1_TwoRecordsInOrder ==
    /\ DOMAIN hints = 0..1
    /\ hints[0].path = Str("/rootdev/pci@0/isab@0/isa@0/uart@0")
    /\ hints[1].path = Str("/rootdev/pci@0/isab@0/isa@0/uart@1")

\* both paths have been read, each from its own index
C1_Witness ==
    \E r1, r2 \in Readers :
        /\ HasRead(r1, 0, "path") /\ val[r1].s = "/rootdev/pci@0/isab@0/isa@0/uart@0"
        /\ HasRead(r2, 1, "path") /\ val[r2].s = "/rootdev/pci@0/isab@0/isa@0/uart@1"

\* C2: every record's path is a non-empty string (a non-null pointer to a
\* string of length > 0), and distinct records have distinct paths.
C2_PathNonEmptyUnique ==
    /\ \A i \in DOMAIN hints : ~hints[i].path.null /\ Len(hints[i].path.s) > 0
    /\ \A i, j \in DOMAIN hints : i # j => hints[i].path # hints[j].path

\* two readers hold the paths of two different records, and they differ
C2_Witness ==
    \E r1, r2 \in Readers : \E i, j \in DOMAIN hints :
        /\ i # j
        /\ HasRead(r1, i, "path") /\ HasRead(r2, j, "path")
        /\ ~val[r1].null /\ Len(val[r1].s) > 0
        /\ val[r1] # val[r2]

\* C3: the record with path .../uart@0 (hints[0]) has iomem ranges
\* (1016,1023),(760,767) in that order, no ioport range (all 32 ioport
\* slots are 0) and irq 4.
C3_Record0 ==
    /\ hints[0].path = Str("/rootdev/pci@0/isab@0/isa@0/uart@0")
    /\ Ranges(hints[0].iomem) = << <<1016, 1023>>, <<760, 767>> >>
    /\ Ranges(hints[0].ioport) = << >>
    /\ DOMAIN hints[0].ioport = 0..31
    /\ \A k \in 0..31 : hints[0].ioport[k] = 0
    /\ hints[0].irq = 4

\* the three resource members of hints[0] have been read
C3_Witness ==
    \E r1, r2, r3 \in Readers :
        /\ HasRead(r1, 0, "iomem") /\ val[r1][0] = 1016 /\ val[r1][3] = 767
        /\ HasRead(r2, 0, "ioport") /\ val[r2][0] = 0
        /\ HasRead(r3, 0, "irq") /\ val[r3] = 4

\* C4: the record with path .../uart@1 (hints[1]) has iomem ranges
\* (760,767), ioport ranges (96,96),(100,100) in that order and irq 3.
C4_Record1 ==
    /\ hints[1].path = Str("/rootdev/pci@0/isab@0/isa@0/uart@1")
    /\ Ranges(hints[1].iomem) = << <<760, 767>> >>
    /\ Ranges(hints[1].ioport) = << <<96, 96>>, <<100, 100>> >>
    /\ hints[1].irq = 3

\* the three resource members of hints[1] have been read
C4_Witness ==
    \E r1, r2, r3 \in Readers :
        /\ HasRead(r1, 1, "iomem") /\ val[r1][0] = 760 /\ val[r1][1] = 767
        /\ HasRead(r2, 1, "ioport") /\ val[r2][0] = 96 /\ val[r2][2] = 100
        /\ HasRead(r3, 1, "irq") /\ val[r3] = 3

\* C5: the table is immutable after initialisation.  In every reachable
\* state, whatever reads the readers have interleaved, hints still equals
\* the value static initialisation gave it, every value a reader holds is
\* the initial value of the member it read, and two readers that read the
\* same member hold the same value.
C5_Immutable ==
    /\ hints = TableInit(HintsLiteral)
    /\ \A r \in Readers :
          loc[r] # NoLoc => val[r] = TableInit(HintsLiteral)[loc[r][1]][loc[r][2]]
    /\ \A r1, r2 \in Readers : loc[r1] = loc[r2] => val[r1] = val[r2]

\* two readers have read the same member while a third read another one
C5_Witness ==
    \E r1, r2, r3 \in Readers :
        /\ r1 # r2
        /\ HasRead(r1, 0, "irq") /\ HasRead(r2, 0, "irq") /\ val[r1] = val[r2]
        /\ HasRead(r3, 1, "ioport")

\* C6: in every record iomem and ioport have exactly 32 slots (16 pairs),
\* and every slot after the last listed value is 0: hints[0].iomem[4..31],
\* hints[0].ioport[0..31], hints[1].iomem[2..31], hints[1].ioport[4..31].
\* Once a (0,0) pair appears in an array, every later pair is (0,0) too.
C6_ZeroPadded ==
    /\ \A i \in DOMAIN hints : \A m \in RangeMembers :
          /\ DOMAIN hints[i][m] = 0..31
          /\ \A k \in 0..31 : k >= Listed(i, m) => hints[i][m][k] = 0
          /\ \A p, q \in 0..15 :
                (p < q /\ Pair(hints[i][m], p) = <<0, 0>>) => Pair(hints[i][m], q) = <<0, 0>>
    /\ \A k \in 4..31 : hints[0].iomem[k] = 0
    /\ \A k \in 0..31 : hints[0].ioport[k] = 0
    /\ \A k \in 2..31 : hints[1].iomem[k] = 0
    /\ \A k \in 4..31 : hints[1].ioport[k] = 0

\* a reader holds hints[1].iomem: one listed pair, then padding to slot 31
C6_Witness ==
    \E r \in Readers :
        /\ HasRead(r, 1, "iomem")
        /\ val[r][1] = 767 /\ val[r][2] = 0 /\ val[r][31] = 0
        /\ 32 \notin DOMAIN val[r]

\* C7: for every record and each of iomem and ioport, the number of
\* populated (non-padding) values is even: the initialiser lists an even
\* number of values, and the array's non-zero prefix has even length.
C7_EvenPopulated ==
    \A i \in DOMAIN hints : \A m \in RangeMembers :
        /\ Listed(i, m) % 2 = 0
        /\ PopulatedLen(hints[i][m]) % 2 = 0

\* a reader holds an array with a populated prefix of four values
C7_Witness ==
    \E r \in Readers :
        /\ HasRead(r, 0, "iomem")
        /\ PopulatedLen(val[r]) = 4
        /\ Listed(0, "iomem") = 4

\* C9: every listed pair (start, end) has start <= end and is not (0,0),
\* so the first (0,0) pair of an array is where its listed ranges end.
C9_RangesOrdered ==
    \A i \in DOMAIN hints : \A m \in RangeMembers :
        /\ \A p \in 0..((Listed(i, m) \div 2) - 1) :
              /\ hints[i][m][2 * p] <= hints[i][m][(2 * p) + 1]
              /\ Pair(hints[i][m], p) # <<0, 0>>
        /\ FirstZeroPair(hints[i][m]) = Listed(i, m) \div 2

\* a reader holds an array with a one-address range (start = end) followed
\* by another range and then the first (0,0) pair
C9_Witness ==
    \E r \in Readers :
        /\ HasRead(r, 1, "ioport")
        /\ Pair(val[r], 0) = <<96, 96>>
        /\ FirstZeroPair(val[r]) = 2

\* C10: every record has a non-zero irq, and distinct records have
\* distinct irq values.
C10_IrqNonZeroDistinct ==
    /\ \A i \in DOMAIN hints : hints[i].irq # 0
    /\ \A i, j \in DOMAIN hints : i # j => hints[i].irq # hints[j].irq

\* the interrupt lines of both records have been read
C10_Witness ==
    \E r1, r2 \in Readers :
        /\ HasRead(r1, 0, "irq") /\ HasRead(r2, 1, "irq")
        /\ val[r1] # 0 /\ val[r2] # 0 /\ val[r1] # val[r2]

\* two initialisers of the list designate the same path
SharedPath ==
    \E a, b \in 1..Len(dts) :
        /\ a # b
        /\ "path" \in DOMAIN dts[a] /\ "path" \in DOMAIN dts[b]
        /\ dts[a].path = dts[b].path

\* the table holds two records with the same (non-null) path
HoldsBoth ==
    \E i, j \in DOMAIN hints :
        /\ i # j
        /\ ~hints[i].path.null
        /\ hints[i].path = hints[j].path

=============================================================================
